---- MODULE Spec2Model ----
(***************************************************************************)
(* Lead generation pipeline of src/app.py: the Google Maps scraper         *)
(* (scrape_google_maps_real), its scroll controller (scroll_results_panel) *)
(* and the contact-info extractors used by the website enrichment.         *)
(*                                                                         *)
(* Python strings are modelled as sequences of segments (short strings):   *)
(* `p in s` is contiguous-subsequence containment, s.lower() maps every    *)
(* segment through LowerSeg, s.split('?')[0] is the prefix before the      *)
(* first "?" segment.                                                      *)
(***************************************************************************)
EXTENDS Integers, Sequences, FiniteSets, TLC

\* ------------------------------------------------------------------------
\* Bounds of the model
\* ------------------------------------------------------------------------
MaxHeight == 2        \* feed heights are drawn from 1..MaxHeight
MaxResultsArg == 2    \* max_results is drawn from 1..MaxResultsArg
MaxElems == 2         \* longest list find_elements returns

\* ------------------------------------------------------------------------
\* Program constants
\* ------------------------------------------------------------------------
max_scrolls == 8
NoChangeLimit == 3

VARIABLES
    pc,                 \* position of the run inside scrape_google_maps_real
    max_results,        \* argument max_results
    extract_contact,    \* argument extract_contact
    progress_callback,  \* argument: "none" (None) or "given" (a callable)
    driver,             \* local driver: "None" or "session"
    session,            \* browser session: "absent", "open", "closed"
    quit_calls,         \* number of driver.quit() invocations
    late_use,           \* TRUE once the session was used while not open
    businesses,         \* local list businesses
    stats,              \* local dict stats
    error_log,          \* st.session_state.error_log (types of the entries)
    progress,           \* messages received by progress_callback
    ret,                \* value returned by scrape_google_maps_real
    business_elements,  \* local list business_elements (kinds of the elements)
    business_links,     \* local list business_links (positions in business_elements)
    idx,                \* loop index of the running for loop
    outcomes,           \* what happened to each attempted candidate
    scroll_count,       \* scroll_results_panel: scroll_count
    last_height,        \* scroll_results_panel: last_height
    no_change_count,    \* scroll_results_panel: no_change_count
    reads,              \* heights read by scroll_results_panel, in order
    text,               \* extract_emails_from_text: argument text (its words)
    valid_emails,       \* extract_emails_from_text: returned list
    soup_links,         \* extract_social_media_links: soup.find_all('a', href=True)
    base_url,           \* extract_social_media_links: argument base_url
    found_social,       \* extract_social_media_links: returned dict, in insertion order
    website,            \* scrape_website_for_contact_info: the website behind website_url
    contact_info,       \* the dict scrape_website_for_contact_info returned last
    requests,           \* URLs requested by scrape_website_for_contact_info, in order
    ui_pc,              \* dashboard script: "waiting" for an interaction, or "scraping"
    is_scraping,        \* st.session_state.is_scraping
    button_disabled,    \* the disabled argument the Start button on the page was rendered with
    extracted_data      \* st.session_state.extracted_data: "None" or "data"

vars == <<pc, max_results, extract_contact, progress_callback, driver, session,
          quit_calls, late_use, businesses, stats, error_log, progress, ret,
          business_elements, business_links, idx, outcomes,
          scroll_count, last_height, no_change_count, reads, text, valid_emails,
          soup_links, base_url, found_social, website, contact_info, requests,
          ui_pc, is_scraping, button_disabled, extracted_data>>

uiVars == <<ui_pc, is_scraping, button_disabled, extracted_data>>

argVars == <<max_results, extract_contact, progress_callback>>
scrollVars == <<scroll_count, last_height, no_change_count, reads>>
loopVars == <<business_elements, business_links, idx, outcomes>>
fnVars == <<text, valid_emails, soup_links, base_url, found_social, website,
            contact_info, requests>>
runVars == <<driver, session, quit_calls, late_use, businesses, stats, error_log,
             progress, ret, loopVars, scrollVars>>

\* ------------------------------------------------------------------------
\* Strings as sequences of segments
\* ------------------------------------------------------------------------
LowerSeg(c) ==
    CASE c = "Info" -> "info"
      [] c = "RealBiz" -> "realbiz"
      [] c = "Example.com" -> "example.com"
      [] c = "Twitter.com" -> "twitter.com"
      [] c = "Contact" -> "contact"
      [] c = "About" -> "about"
      [] OTHER -> c

Lower(s) == [i \in 1..Len(s) |-> LowerSeg(s[i])]

\* p in s
IsSubstr(p, s) ==
    \E i \in 0..(Len(s) - Len(p)) : SubSeq(s, i + 1, i + Len(p)) = p

\* c in s, for a one-character c that is a segment of its own
HasSeg(c, s) == \E i \in 1..Len(s) : s[i] = c

FirstIndex(c, s) == CHOOSE i \in 1..Len(s) : s[i] = c /\ \A j \in 1..(i - 1) : s[j] # c

\* s.split(c)[0]
SplitFirst(s, c) == IF HasSeg(c, s) THEN SubSeq(s, 1, FirstIndex(c, s) - 1) ELSE s

\* ------------------------------------------------------------------------
\* Email extraction (extract_emails_from_text)
\* ------------------------------------------------------------------------
\* Number of characters of a segment ("x95" stands for 95 characters)
SegLen(c) ==
    CASE c = "x95" -> 95
      [] c \in {"@", "/", "?"} -> 1
      [] c \in {"info", "Info", ".com", ".org"} -> 4
      [] c \in {"biz", ".io"} -> 3
      [] c \in {"hello", "sales", "image"} -> 5
      [] c \in {"realbiz", "RealBiz", "contact", "Contact", "mailto:", "MAILTO:"} -> 7
      [] c \in {"example.com", "Example.com"} -> 11
      [] OTHER -> 4

\* len(s)
RECURSIVE StrLen(_)
StrLen(s) == IF s = <<>> THEN 0 ELSE SegLen(Head(s)) + StrLen(Tail(s))

\* Segments that end a word with a dot and at least two letters
TldSegs == {".com", ".org", ".io", "example.com", "Example.com", "mail.com"}

\* A word of the text that email_pattern matches as a whole
EmailShaped(w) ==
    /\ Len(w) >= 3
    /\ w[Len(w)] \in TldSegs
    /\ \E i \in 2..(Len(w) - 1) :
         /\ w[i] = "@"
         /\ \A j \in 1..Len(w) : j # i => w[j] \notin {"@", "?", "/", "mailto:", "MAILTO:"}

\* re.findall(email_pattern, text), text being a sequence of words
FindAllEmails(text_) == SelectSeq(text_, EmailShaped)

fake_patterns ==
    << <<"example.com">>, <<"domain.com">>, <<"test.com">>, <<"sample.com">>,
       <<"yoursite.com">>, <<"yourdomain.com">>, <<"email.com">>, <<"mail.com">>,
       <<"image">>, <<"sentry">>, <<"wixpress">>, <<"placeholder">>, <<"dummy">>,
       <<"fake">> >>

\* The patterns looked up in the email as written, not in email_lower
IsFakeCaseSensitive(email) ==
    \E k \in 1..Len(fake_patterns) : IsSubstr(fake_patterns[k], email)

\* any(fake in email_lower for fake in fake_patterns)
IsFake(email) ==
    \E k \in 1..Len(fake_patterns) : IsSubstr(fake_patterns[k], Lower(email))

InSeq(x, s) == \E i \in 1..Len(s) : s[i] = x

\* The filter loop over the matches
RECURSIVE FilterEmails(_, _)
FilterEmails(emails, valid_emails_) ==
    IF emails = <<>> THEN valid_emails_
    ELSE LET email == Head(emails)
             keep == /\ ~IsFake(email)
                     /\ ~InSeq(email, valid_emails_)
                     /\ StrLen(email) < 100
         IN FilterEmails(Tail(emails),
                         IF keep THEN Append(valid_emails_, email) ELSE valid_emails_)

extract_emails_from_text(text_) == FilterEmails(FindAllEmails(text_), <<>>)

\* ------------------------------------------------------------------------
\* Social links (extract_social_media_links)
\* ------------------------------------------------------------------------
social_platforms ==
    << [platform |-> "facebook", domains |-> << <<"facebook.com">>, <<"fb.com">> >>],
       [platform |-> "instagram", domains |-> << <<"instagram.com">> >>],
       [platform |-> "twitter", domains |-> << <<"twitter.com">>, <<"x.com">> >>],
       [platform |-> "linkedin", domains |-> << <<"linkedin.com">> >>],
       [platform |-> "youtube", domains |-> << <<"youtube.com">> >>] >>

\* urljoin(base, href): an href with a scheme stays, an absolute path replaces
\* the path of base, anything else is appended to the directory of base
HasScheme(href) == Len(href) > 0 /\ href[1] \in {"https://", "http://", "mailto:", "MAILTO:"}

Origin(url) == SubSeq(url, 1, 2)

urljoin(base, href) ==
    IF HasScheme(href) THEN href
    ELSE IF href = <<>> THEN base
    ELSE IF href[1] = "/" THEN Origin(base) \o href
    ELSE Origin(base) \o <<"/">> \o href

\* platform in found_social
HasPlatform(found, platform) == \E i \in 1..Len(found) : found[i].platform = platform

\* found_social[platform] = href (the platform is not in the dict yet)
SetPlatform(found, platform, href) == Append(found, [platform |-> platform, url |-> href])

\* any domain of the platform is in href.lower()
DomainIn(domains, href) == \E d \in 1..Len(domains) : IsSubstr(domains[d], Lower(href))

\* The loop over social_platforms for one link: href is reassigned when a
\* platform matches, and the remaining platforms see the reassigned href
RECURSIVE PlatformLoop(_, _, _)
PlatformLoop(k, href, found) ==
    IF k > Len(social_platforms) THEN found
    ELSE LET sp == social_platforms[k]
         IN IF ~HasPlatform(found, sp.platform) /\ DomainIn(sp.domains, href)
            THEN LET stripped == IF HasSeg("?", href) THEN SplitFirst(href, "?") ELSE href
                 IN PlatformLoop(k + 1, stripped, SetPlatform(found, sp.platform, stripped))
            ELSE PlatformLoop(k + 1, href, found)

\* href of a link as the platform loop first sees it
ResolvedHref(link, base) ==
    IF link.href # <<>> /\ link.href[1] = "/" THEN urljoin(base, link.href) ELSE link.href

RECURSIVE LinkLoop(_, _, _)
LinkLoop(links, base, found) ==
    IF links = <<>> THEN found
    ELSE LinkLoop(Tail(links), base, PlatformLoop(1, ResolvedHref(Head(links), base), found))

extract_social_media_links(links, base) == LinkLoop(links, base, <<>>)

\* ------------------------------------------------------------------------
\* Website enrichment (scrape_website_for_contact_info)
\* ------------------------------------------------------------------------
\* A page is [text: words of soup.get_text(), links: the <a href> elements in
\* document order, filler: characters of the text besides the words].
\* A website is [url, home: [kind, page], contact: [raised, page]]: what the
\* homepage request and the secondary request answer.
IsMailto(link) == link.href # <<>> /\ link.href[1] \in {"mailto:", "MAILTO:"}

NotMailtoSeg(c) == c # "mailto:"

\* link.get('href').replace('mailto:', '').split('?')[0].strip()
MailtoAddress(link) == SplitFirst(SelectSeq(link.href, NotMailtoSeg), "?")

\* The loop over the mailto links; need_at is the '@' in email test, which
\* only the homepage loop has
RECURSIVE MailtoLoop(_, _, _)
MailtoLoop(links, emails, need_at) ==
    IF links = <<>> THEN emails
    ELSE LET email == MailtoAddress(Head(links))
             keep == /\ email # <<>>
                     /\ ~InSeq(email, emails)
                     /\ (need_at => HasSeg("@", email))
         IN MailtoLoop(Tail(links), IF keep THEN Append(emails, email) ELSE emails, need_at)

\* The list without the slice
WholeList(emails) == emails

\* emails[:3]
FirstThree(emails) == SubSeq(emails, 1, IF Len(emails) < 3 THEN Len(emails) ELSE 3)

\* Emails of one parsed page: the text emails, then the mailto addresses
PageEmails(page, need_at) ==
    MailtoLoop(SelectSeq(page.links, IsMailto), extract_emails_from_text(page.text), need_at)

\* any(word in href or word in text for word in ['contact', 'about'])
IsContactLink(link) ==
    \E word \in {"contact", "about"} :
        IsSubstr(<<word>>, Lower(link.href)) \/ IsSubstr(<<word>>, Lower(link.text))

\* The loop collecting contact_urls (at most 2, no repeats)
RECURSIVE ContactUrls(_, _, _)
ContactUrls(links, base, contact_urls) ==
    IF links = <<>> THEN contact_urls
    ELSE LET link == Head(links)
             full_url == urljoin(base, link.href)
             add == /\ IsContactLink(link)
                    /\ ~InSeq(full_url, contact_urls)
                    /\ Len(contact_urls) < 2
         IN ContactUrls(Tail(links), base,
                        IF add THEN Append(contact_urls, full_url) ELSE contact_urls)

\* len(page_text)
RECURSIVE WordsLen(_)
WordsLen(words) == IF words = <<>> THEN 0 ELSE StrLen(Head(words)) + WordsLen(Tail(words))

PageTextLen(page) == page.filler + WordsLen(page.text)

ContactResult(emails, social, error) ==
    [emails |-> emails, social_media |-> social, error |-> error]

\* website_url after the scheme is added
NormalUrl(url) == IF HasScheme(url) THEN url ELSE <<"https://">> \o url

\* The contact page tried whatever the homepage gave
FallbackAlways(home_emails) == TRUE

\* if not result['emails']: try the contact page
NeedsFallback(home_emails) == home_emails = <<>>

\* The error decided from the homepage emails, before the contact page
ScrapeParsedEarlyError(site, website_url) ==
    LET page == site.home.page
        home_emails == FirstThree(PageEmails(page, TRUE))
        social == extract_social_media_links(page.links, website_url)
        contact_urls == IF NeedsFallback(home_emails)
                        THEN ContactUrls(page.links, website_url, <<>>)
                        ELSE <<>>
        fetch2 == contact_urls # <<>>
        emails == IF fetch2 /\ ~site.contact.raised
                  THEN FirstThree(PageEmails(site.contact.page, FALSE))
                  ELSE home_emails
        error == IF home_emails = <<>> /\ social = <<>> THEN "No contact info found" ELSE "None"
    IN [result |-> ContactResult(emails, social, error),
        requests |-> IF fetch2 THEN <<website_url, contact_urls[1]>> ELSE <<website_url>>]

\* The part of the function after the homepage was parsed and found usable
ScrapeParsed(site, website_url) ==
    LET page == site.home.page
        home_emails == FirstThree(PageEmails(page, TRUE))
        social == extract_social_media_links(page.links, website_url)
        contact_urls == IF NeedsFallback(home_emails)
                        THEN ContactUrls(page.links, website_url, <<>>)
                        ELSE <<>>
        fetch2 == contact_urls # <<>>
        emails == IF fetch2 /\ ~site.contact.raised
                  THEN FirstThree(PageEmails(site.contact.page, FALSE))
                  ELSE home_emails
        error == IF emails = <<>> /\ social = <<>> THEN "No contact info found" ELSE "None"
    IN [result |-> ContactResult(emails, social, error),
        requests |-> IF fetch2 THEN <<website_url, contact_urls[1]>> ELSE <<website_url>>]

\* scrape_website_for_contact_info(website_url): the result and, in order,
\* the URLs it requested
scrape_website_for_contact_info(site) ==
    IF site.url = <<>> \/ site.url = <<"N/A">>
    THEN [result |-> ContactResult(<<>>, <<>>, "No website URL"), requests |-> <<>>]
    ELSE LET website_url == NormalUrl(site.url)
             failed(msg) == [result |-> ContactResult(<<>>, <<>>, msg),
                             requests |-> <<website_url>>]
         IN CASE site.home.kind = "timeout" -> failed("Timeout")
              [] site.home.kind = "connection" -> failed("Connection failed")
              [] site.home.kind = "http_error" -> failed("HTTP status")
              [] site.home.kind = "exception" -> failed("Error")
              [] site.home.kind = "non_html" -> failed("Non-HTML")
              [] OTHER ->
                   IF PageTextLen(site.home.page) < 100
                   THEN failed("Empty content")
                   ELSE ScrapeParsed(site, website_url)

\* ------------------------------------------------------------------------
\* Words, links, pages and websites the environment can serve
\* ------------------------------------------------------------------------
E_info == <<"info", "@", "realbiz", ".com">>
E_Info == <<"Info", "@", "RealBiz", ".com">>
E_hello == <<"hello", "@", "biz", ".org">>
E_sales == <<"sales", "@", "shop", ".io">>
E_example == <<"contact", "@", "example.com">>
E_Example == <<"joe", "@", "Example.com">>
E_image == <<"image", "@", "shop", ".io">>
E_long == <<"x95", "@", "realbiz", ".com">>
W_plain == <<"call">>
W_notld == <<"foo", "@", "bar">>

Link(href, text_) == [href |-> href, text |-> text_]

L_fb1 == Link(<<"https://", "facebook.com", "/", "biz">>, <<>>)
L_fb2 == Link(<<"https://", "fb.com", "/", "other">>, <<>>)
L_ig == Link(<<"https://", "instagram.com", "/", "biz">>, <<>>)
L_share == Link(<<"https://", "facebook.com", "/", "sharer", "?", "u=", "instagram.com">>, <<>>)
L_tw == Link(<<"https://", "Twitter.com", "/", "biz", "?", "lang=en">>, <<>>)
L_contact == Link(<<"/", "contact">>, <<"Contact">>)
L_about == Link(<<"team.html">>, <<"About", "us">>)
L_plain == Link(<<"/", "menu">>, <<"Menu">>)
L_mailto == Link(<<"mailto:", "hello", "@", "biz", ".org">>, <<"Email">>)
L_mailto_q == Link(<<"mailto:", "sales", "@", "shop", ".io", "?", "subject=hi">>, <<"Email">>)
L_MAILTO == Link(<<"MAILTO:", "info", "@", "realbiz", ".com">>, <<"Email">>)
L_mailto_name == Link(<<"mailto:", "nobody">>, <<"Email">>)

Page(text_, links, filler) == [text |-> text_, links |-> links, filler |-> filler]

NoPage == Page(<<>>, <<>>, 0)

SiteUrl == <<"https://", "mysite.com">>

Site(url, kind, home, raised, contact) ==
    [url |-> url, home |-> [kind |-> kind, page |-> home],
     contact |-> [raised |-> raised, page |-> contact]]

\* The websites the enrichment stage of a run is served
FailedSite(kind) == Site(SiteUrl, kind, NoPage, TRUE, NoPage)

PipelineSites ==
    {FailedSite(k) : k \in {"timeout", "connection", "http_error", "non_html"}} \cup
    {Site(SiteUrl, "html", NoPage, TRUE, NoPage),
     Site(SiteUrl, "html", Page(<<W_plain>>, <<L_plain>>, 100), TRUE, NoPage),
     Site(SiteUrl, "html", Page(<<E_info>>, <<>>, 100), TRUE, NoPage),
     Site(SiteUrl, "html", Page(<<>>, <<L_fb1>>, 100), TRUE, NoPage),
     Site(SiteUrl, "html", Page(<<>>, <<L_contact>>, 100), FALSE,
          Page(<<>>, <<L_mailto>>, 0))}

\* ------------------------------------------------------------------------
\* Statistics, log and progress
\* ------------------------------------------------------------------------
ZeroStats ==
    [total_found |-> 0, successfully_extracted |-> 0, google_maps_errors |-> 0,
     website_scraped |-> 0, website_errors |-> 0, emails_found |-> 0,
     social_found |-> 0]

\* log_error(error_type, ...): the entry is appended to the log
log_error(log, error_type) == Append(log, error_type)

\* What a call of progress_callback can do: return (TRUE) or raise (FALSE)
CallbackReturns == IF progress_callback = "given" THEN {TRUE, FALSE} ELSE {TRUE}

\* The message is put before the ones already received
NotifiedFirst(msg) == IF progress_callback = "none" THEN progress ELSE <<msg>> \o progress

\* if progress_callback: progress_callback(msg)
Notified(msg) == IF progress_callback = "none" THEN progress ELSE Append(progress, msg)

Fatal(msg) == [records |-> <<>>, error |-> msg, stats |-> stats]
FatalWith(msg, s) == [records |-> <<>>, error |-> msg, stats |-> s]

\* A driver call: late when there is no driver or quit() was already called
Used == late_use \/ driver = "None" \/ quit_calls > 0

\* The critical error returned together with the records extracted so far
CriticalKeepsRecords ==
    /\ error_log' = log_error(error_log, "CRITICAL")
    /\ ret' = [records |-> businesses, error |-> "critical_error", stats |-> stats]
    /\ pc' = "finally"

\* except Exception as e: log CRITICAL, return the critical error
Critical ==
    /\ error_log' = log_error(error_log, "CRITICAL")
    /\ ret' = Fatal("critical_error")
    /\ pc' = "finally"

\* ------------------------------------------------------------------------
\* Initial state: entry of scrape_google_maps_real
\* ------------------------------------------------------------------------
\* No dashboard session is involved: the function is called on its own
NoDashboard ==
    /\ ui_pc = "waiting"
    /\ is_scraping = FALSE
    /\ button_disabled = FALSE
    /\ extracted_data = "None"

\* The locals of a run at the entry of scrape_google_maps_real
RunEntry ==
    /\ driver = "None"
    /\ session = "absent"
    /\ quit_calls = 0
    /\ late_use = FALSE
    /\ businesses = <<>>
    /\ stats = ZeroStats
    /\ error_log = <<>>
    /\ progress = <<>>
    /\ ret = [records |-> <<>>, error |-> "pending", stats |-> ZeroStats]
    /\ business_elements = <<>>
    /\ business_links = <<>>
    /\ idx = 0
    /\ outcomes = <<>>
    /\ scroll_count = 0
    /\ last_height = 0
    /\ no_change_count = 0
    /\ reads = <<>>

\* No extractor function is being called on its own
NoEmailsCall == text = <<>> /\ valid_emails = <<>>
NoSocialCall == soup_links = <<>> /\ base_url = <<>> /\ found_social = <<>>
NoWebsiteCall ==
    /\ website = FailedSite("timeout")
    /\ contact_info = ContactResult(<<>>, <<>>, "None")
    /\ requests = <<>>

Init ==
    /\ pc = "acquire"
    /\ max_results \in 1..MaxResultsArg
    /\ extract_contact \in BOOLEAN
    /\ progress_callback \in {"none", "given"}
    /\ RunEntry
    /\ NoDashboard
    /\ NoEmailsCall
    /\ NoSocialCall
    /\ NoWebsiteCall

\* ------------------------------------------------------------------------
\* Session acquisition, page load, results panel
\* ------------------------------------------------------------------------
\* get_chrome_driver(): the driver, or None when Chrome does not start
\* ("failed") or when configuring the started session raises ("unconfigured")
get_chrome_driver == {"started", "failed", "unconfigured"}

\* Only a Chrome that did not start is taken for a missing driver
DriverMissingLoose(got) == got = "failed"

\* driver is None
DriverMissing(got) == got # "started"

\* progress message, then driver = get_chrome_driver(); None is fatal
AcquireDriver ==
    /\ pc = "acquire"
    /\ \E cb \in CallbackReturns :
         /\ progress' = Notified([phase |-> "init", n |-> 0])
         /\ IF ~cb
            THEN /\ Critical
                 /\ UNCHANGED <<driver, session>>
            ELSE \E got \in get_chrome_driver :
                   /\ driver' = IF got = "started" THEN "session" ELSE "None"
                   /\ session' = IF got = "failed" THEN session ELSE "open"
                   /\ IF DriverMissing(got)
                      THEN /\ ret' = Fatal("driver_init_failed")
                           /\ pc' = "finally"
                      ELSE /\ pc' = "load"
                           /\ ret' = ret
                   /\ error_log' = error_log
    /\ UNCHANGED <<uiVars, argVars, fnVars, quit_calls, late_use, businesses, stats, loopVars, scrollVars>>

\* progress message, then driver.get(url)
LoadPage ==
    /\ pc = "load"
    /\ \E cb \in CallbackReturns :
         /\ progress' = Notified([phase |-> "load", n |-> 0])
         /\ IF ~cb
            THEN /\ Critical
                 /\ late_use' = late_use
            ELSE /\ late_use' = Used
                 /\ \E got \in {"ok", "timeout", "error"} :
                      CASE got = "ok" ->
                             /\ pc' = "panel"
                             /\ UNCHANGED <<error_log, ret>>
                        [] got = "timeout" ->
                             /\ error_log' = log_error(error_log, "PAGE_TIMEOUT")
                             /\ ret' = Fatal("page_load_timeout")
                             /\ pc' = "finally"
                        [] got = "error" ->
                             /\ error_log' = log_error(error_log, "PAGE_LOAD")
                             /\ ret' = Fatal("page_load_failed")
                             /\ pc' = "finally"
    /\ UNCHANGED <<uiVars, argVars, fnVars, driver, session, quit_calls, businesses, stats, loopVars, scrollVars>>

\* The log after trying the panel selectors in order: a selector that raises
\* something other than TimeoutException is logged, the first found ends the loop
RECURSIVE PanelLog(_, _)
PanelLog(log, tries) ==
    IF tries = <<>> THEN log
    ELSE IF Head(tries) = "found" THEN log
    ELSE IF Head(tries) = "error" THEN PanelLog(log_error(log, "PANEL_LOCATE"), Tail(tries))
    ELSE PanelLog(log, Tail(tries))

PanelFound(tries) == \E i \in 1..Len(tries) : tries[i] = "found"

\* progress message, then the panel selector loop; no panel is fatal
FindPanel ==
    /\ pc = "panel"
    /\ \E cb \in CallbackReturns :
         /\ progress' = Notified([phase |-> "waiting", n |-> 0])
         /\ IF ~cb
            THEN /\ Critical
                 /\ late_use' = late_use
            ELSE /\ late_use' = Used
                 /\ \E tries \in [1..2 -> {"found", "timeout", "error"}] :
                      IF PanelFound(tries)
                      THEN /\ error_log' = PanelLog(error_log, tries)
                           /\ pc' = "scroll_enter"
                           /\ ret' = ret
                      ELSE /\ error_log' = log_error(PanelLog(error_log, tries), "NO_PANEL")
                           /\ ret' = Fatal("no_results_panel")
                           /\ pc' = "finally"
    /\ UNCHANGED <<uiVars, argVars, fnVars, driver, session, quit_calls, businesses, stats, loopVars, scrollVars>>

\* ------------------------------------------------------------------------
\* Scroll controller (scroll_results_panel)
\* ------------------------------------------------------------------------
Heights == 1..MaxHeight

\* progress message, call of scroll_results_panel up to the first height read
ScrollEnter ==
    /\ pc = "scroll_enter"
    /\ \E cb \in CallbackReturns :
         /\ progress' = Notified([phase |-> "scroll", n |-> 0])
         /\ IF ~cb
            THEN /\ Critical
                 /\ UNCHANGED <<late_use, scrollVars>>
            ELSE /\ late_use' = Used
                 /\ \/ /\ Critical
                       /\ UNCHANGED scrollVars
                    \/ \E h \in Heights :
                         /\ scroll_count' = 0
                         /\ last_height' = h
                         /\ no_change_count' = 0
                         /\ reads' = <<h>>
                         /\ pc' = "scroll_loop"
                         /\ UNCHANGED <<error_log, ret>>
    /\ UNCHANGED <<uiVars, argVars, fnVars, driver, session, quit_calls, businesses, stats, loopVars>>

\* > instead of >=
ScrollConvergedLate(count) == count > NoChangeLimit

\* if no_change_count >= 3: break
ScrollConverged(count) == count >= NoChangeLimit

\* One pass of the while loop: scroll, read the height, compare
ScrollStep ==
    /\ pc = "scroll_loop"
    /\ late_use' = Used
    /\ \/ /\ error_log' = log_error(error_log, "SCROLL_ERROR")
          /\ pc' = "scroll_exit"
          /\ UNCHANGED scrollVars
       \/ \E new_height \in Heights :
            /\ reads' = Append(reads, new_height)
            /\ error_log' = error_log
            /\ IF new_height = last_height
               THEN /\ no_change_count' = no_change_count + 1
                    /\ last_height' = last_height
                    /\ IF ScrollConverged(no_change_count + 1)
                       THEN /\ scroll_count' = scroll_count
                            /\ pc' = "scroll_exit"
                       ELSE /\ scroll_count' = scroll_count + 1
                            /\ pc' = IF scroll_count + 1 < max_scrolls
                                     THEN "scroll_loop" ELSE "scroll_exit"
               ELSE /\ no_change_count' = 0
                    /\ last_height' = new_height
                    /\ scroll_count' = scroll_count + 1
                    /\ pc' = IF scroll_count + 1 < max_scrolls
                             THEN "scroll_loop" ELSE "scroll_exit"
    /\ UNCHANGED <<uiVars, argVars, fnVars, driver, session, quit_calls, businesses, stats, progress,
                   ret, loopVars>>

\* return scroll_count, then the progress message of the caller; the locals of
\* scroll_results_panel are gone
ScrollReturn ==
    /\ pc = "scroll_exit"
    /\ \E cb \in CallbackReturns :
         /\ progress' = Notified([phase |-> "scrolled", n |-> 0])
         /\ IF ~cb
            THEN Critical
            ELSE /\ pc' = "find"
                 /\ UNCHANGED <<error_log, ret>>
    /\ scroll_count' = 0
    /\ last_height' = 0
    /\ no_change_count' = 0
    /\ reads' = <<>>
    /\ UNCHANGED <<uiVars, argVars, fnVars, driver, session, quit_calls, late_use, businesses, stats,
                   loopVars>>

\* ------------------------------------------------------------------------
\* Candidate discovery
\* ------------------------------------------------------------------------
\* An element of the results: a link to a place, another element, or an
\* element whose get_attribute raises StaleElementReferenceException
ElemKinds == {"place", "other", "stale"}

ElemLists == UNION {[1..n -> ElemKinds] : n \in 0..MaxElems}

\* What driver.find_elements does for one selector
FindOutcomes ==
    {[raised |-> TRUE, elements |-> <<>>]} \cup
    {[raised |-> FALSE, elements |-> e] : e \in ElemLists}

\* The loop over link_selectors: the first non-empty list is taken
RECURSIVE FoundElements(_)
FoundElements(tries) ==
    IF tries = <<>> THEN <<>>
    ELSE IF ~Head(tries).raised /\ Head(tries).elements # <<>> THEN Head(tries).elements
    ELSE FoundElements(Tail(tries))

RECURSIVE FindLog(_, _)
FindLog(log, tries) ==
    IF tries = <<>> THEN log
    ELSE IF Head(tries).raised THEN FindLog(log_error(log, "ELEMENT_FIND"), Tail(tries))
    ELSE IF Head(tries).elements # <<>> THEN log
    ELSE FindLog(log, Tail(tries))

\* Every link whose href holds 'maps/place', whatever the limit
AllPlaces(elems, i, links, limit) ==
    LET places == {p \in i..Len(elems) : elems[p] = "place"}
    IN links \o [k \in 1..Cardinality(places) |->
                   CHOOSE p \in places : Cardinality({q \in places : q < p}) = k - 1]

\* The loop over business_elements: positions of the links whose href holds
\* 'maps/place', until max_results of them are collected
RECURSIVE LinkLoopPlaces(_, _, _, _)
LinkLoopPlaces(elems, i, links, limit) ==
    IF i > Len(elems) THEN links
    ELSE IF elems[i] = "place"
         THEN IF Len(links) + 1 >= limit
              THEN Append(links, i)
              ELSE LinkLoopPlaces(elems, i + 1, Append(links, i), limit)
         ELSE LinkLoopPlaces(elems, i + 1, links, limit)

\* find the business elements, collect the links; none of either is fatal
FindBusinesses ==
    /\ pc = "find"
    /\ late_use' = Used
    /\ \E tries \in [1..2 -> FindOutcomes] :
         LET elements == FoundElements(tries)
             log == FindLog(error_log, tries)
             links == LinkLoopPlaces(elements, 1, <<>>, max_results)
             counted == [stats EXCEPT !.total_found = Len(links)]
         IN /\ business_elements' = elements
            /\ IF elements = <<>>
               THEN /\ error_log' = log_error(log, "NO_RESULTS")
                    /\ ret' = Fatal("no_businesses")
                    /\ pc' = "finally"
                    /\ UNCHANGED <<business_links, stats, progress>>
               ELSE /\ business_links' = links
                    /\ stats' = counted
                    /\ IF links = <<>>
                       THEN /\ error_log' = log_error(log, "NO_LINKS")
                            /\ ret' = FatalWith("no_links", counted)
                            /\ pc' = "finally"
                            /\ progress' = progress
                       ELSE \E cb \in CallbackReturns :
                              /\ progress' = Notified([phase |-> "found", n |-> Len(links)])
                              /\ IF ~cb
                                 THEN /\ error_log' = log_error(log, "CRITICAL")
                                      /\ ret' = FatalWith("critical_error", counted)
                                      /\ pc' = "finally"
                                 ELSE /\ error_log' = log
                                      /\ ret' = ret
                                      /\ pc' = "extract"
    /\ UNCHANGED <<uiVars, argVars, fnVars, driver, session, quit_calls, businesses, idx, outcomes,
                   scrollVars>>

\* ------------------------------------------------------------------------
\* Record extraction
\* ------------------------------------------------------------------------
NA == <<"N/A">>

\* What the field helpers read from the detail panel that is open
NoNamePanel ==
    [name |-> NA, phone |-> NA, address |-> NA, website |-> NA, category |-> NA,
     rating |-> NA, reviews |-> NA]

BarePanel == [NoNamePanel EXCEPT !.name = <<"Cafe">>]

FullPanel ==
    [name |-> <<"Cafe">>, phone |-> <<"+1 555">>, address |-> <<"Main St">>,
     website |-> <<"https://", "mysite.com">>, category |-> <<"Coffee shop">>,
     rating |-> <<"4.5">>, reviews |-> <<"12", " ", "reviews">>]

DetailPanels == {NoNamePanel, BarePanel, FullPanel}

keyword == <<"coffee">>

\* reviews.split()[0].replace(',', '') when the label holds "reviews"
ReviewCount(reviews) ==
    IF reviews # NA /\ HasSeg("reviews", reviews) THEN SubSeq(reviews, 1, 1) ELSE reviews

\* The dict built from the fields of the panel
BusinessOf(panel) ==
    [name |-> panel.name,
     email |-> NA,
     phone |-> panel.phone,
     address |-> panel.address,
     category |-> IF panel.category # NA THEN panel.category ELSE keyword,
     website |-> panel.website,
     social |-> NA,
     rating |-> panel.rating,
     reviews |-> ReviewCount(panel.reviews)]

Bump(s, counter) == [s EXCEPT ![counter] = @ + 1]

\* Where the loop goes after the candidate at position idx + 1
NextCandidate == IF idx + 1 < Len(business_links) THEN "extract" ELSE "extracted"

\* break instead of continue
AbortLoop == "extracted"

\* continue, in the except clauses and after a missing name
ContinueLoop == NextCandidate

\* No candidate is taken for nameless
NameNeverMissing(panel) == FALSE

\* if name == "N/A": every locator of the name chain gave "N/A"
NameMissing(panel) == panel.name = NA

\* The except clauses of the loop body: log, count, continue
RecordFault(error_type, outcome) ==
    /\ error_log' = log_error(error_log, error_type)
    /\ stats' = Bump(stats, "google_maps_errors")
    /\ outcomes' = Append(outcomes, outcome)
    /\ pc' = ContinueLoop

\* One pass of the loop over business_links
ExtractRecord ==
    /\ pc = "extract"
    /\ idx < Len(business_links)
    /\ late_use' = Used
    /\ idx' = idx + 1
    /\ \/ /\ RecordFault("STALE_ELEMENT", "stale")
          /\ UNCHANGED <<businesses, progress>>
       \/ /\ RecordFault("EXTRACT_ERROR", "error")
          /\ UNCHANGED <<businesses, progress>>
       \/ \E panel \in DetailPanels :
            IF NameMissing(panel)
            THEN /\ RecordFault("NAME_EXTRACT", "no_name")
                 /\ UNCHANGED <<businesses, progress>>
            ELSE /\ businesses' = Append(businesses, BusinessOf(panel))
                 /\ \E cb \in CallbackReturns :
                      /\ progress' = Notified([phase |-> "record", n |-> idx + 1])
                      /\ IF ~cb
                         THEN /\ error_log' = log_error(error_log, "EXTRACT_ERROR")
                              /\ stats' = Bump(Bump(stats, "successfully_extracted"),
                                               "google_maps_errors")
                              /\ outcomes' = Append(outcomes, "callback_raised")
                              /\ pc' = ContinueLoop
                         ELSE /\ error_log' = error_log
                              /\ stats' = Bump(stats, "successfully_extracted")
                              /\ outcomes' = Append(outcomes, "ok")
                              /\ pc' = NextCandidate
    /\ UNCHANGED <<uiVars, argVars, fnVars, driver, session, quit_calls, ret, business_elements,
                   business_links, scrollVars>>

\* Stage 2 starts whatever extract_contact says
AfterExtractAlwaysEnrich ==
    /\ pc = "extracted"
    /\ IF businesses = <<>>
       THEN /\ ret' = Fatal("extracted_zero")
            /\ pc' = "finally"
            /\ UNCHANGED <<progress, error_log, idx>>
       ELSE \E cb \in CallbackReturns :
              /\ progress' = Notified([phase |-> "stage2", n |-> 0])
              /\ idx' = 0
              /\ IF ~cb
                 THEN Critical
                 ELSE /\ pc' = IF Len(businesses) > 0 THEN "enrich" ELSE "return"
                      /\ UNCHANGED <<error_log, ret>>
    /\ UNCHANGED <<uiVars, argVars, fnVars, driver, session, quit_calls, late_use, businesses, stats,
                   business_elements, business_links, outcomes, scrollVars>>

\* After the loop: no record is fatal; else stage 2 starts or is skipped
AfterExtract ==
    /\ pc = "extracted"
    /\ IF businesses = <<>>
       THEN /\ ret' = Fatal("extracted_zero")
            /\ pc' = "finally"
            /\ UNCHANGED <<progress, error_log, idx>>
       ELSE IF ~extract_contact
       THEN /\ pc' = "return"
            /\ UNCHANGED <<progress, error_log, ret, idx>>
       ELSE \E cb \in CallbackReturns :
              /\ progress' = Notified([phase |-> "stage2", n |-> 0])
              /\ idx' = 0
              /\ IF ~cb
                 THEN Critical
                 ELSE /\ pc' = IF Len(businesses) > 0 THEN "enrich" ELSE "return"
                      /\ UNCHANGED <<error_log, ret>>
    /\ UNCHANGED <<uiVars, argVars, fnVars, driver, session, quit_calls, late_use, businesses, stats,
                   business_elements, business_links, outcomes, scrollVars>>

\* ------------------------------------------------------------------------
\* Enrichment stage and return
\* ------------------------------------------------------------------------
\* ', '.join(emails)
RECURSIVE JoinEmails(_)
JoinEmails(emails) ==
    IF Len(emails) = 1 THEN emails[1]
    ELSE emails[1] \o <<", ">> \o JoinEmails(Tail(emails))

\* platform.capitalize()
Capitalize(platform) ==
    CASE platform = "facebook" -> "Facebook"
      [] platform = "instagram" -> "Instagram"
      [] platform = "twitter" -> "Twitter"
      [] platform = "linkedin" -> "Linkedin"
      [] platform = "youtube" -> "Youtube"

\* ' | '.join(f"{platform.capitalize()}: {url}" ...)
RECURSIVE JoinSocial(_)
JoinSocial(found) ==
    LET entry == <<Capitalize(found[1].platform), ": ">> \o found[1].url
    IN IF Len(found) = 1 THEN entry ELSE entry \o <<" | ">> \o JoinSocial(Tail(found))

\* The business and the statistics after contact_info was received
Enriched(business, contact) ==
    [business EXCEPT
       !.email = IF contact.emails # <<>> THEN JoinEmails(contact.emails) ELSE @,
       !.social = IF contact.social_media # <<>> THEN JoinSocial(contact.social_media) ELSE @]

EnrichedStats(s, contact) ==
    LET s1 == Bump(s, "website_scraped")
        s2 == IF contact.emails # <<>> THEN Bump(s1, "emails_found")
              ELSE IF contact.error # "None" THEN Bump(s1, "website_errors")
              ELSE s1
    IN IF contact.social_media # <<>> THEN Bump(s2, "social_found") ELSE s2

\* One pass of the loop over businesses in stage 2
EnrichRecord ==
    /\ pc = "enrich"
    /\ idx < Len(businesses)
    /\ LET business == businesses[idx + 1]
       IN \E cb \in CallbackReturns :
            /\ progress' = Notified([phase |-> IF business.website # NA
                                                THEN "website" ELSE "skipped",
                                     n |-> idx + 1])
            /\ IF ~cb
               THEN /\ Critical
                    /\ UNCHANGED <<businesses, stats, idx, contact_info>>
               ELSE /\ idx' = idx + 1
                    /\ pc' = IF idx + 1 < Len(businesses) THEN "enrich" ELSE "return"
                    /\ UNCHANGED <<error_log, ret>>
                    /\ IF business.website # NA
                       THEN \E site \in PipelineSites :
                              LET info == scrape_website_for_contact_info(site).result
                              IN /\ contact_info' = info
                                 /\ businesses' = [businesses EXCEPT ![idx + 1] =
                                                      Enriched(business, info)]
                                 /\ stats' = EnrichedStats(stats, info)
                       ELSE UNCHANGED <<businesses, stats, contact_info>>
    /\ UNCHANGED <<uiVars, argVars, text, valid_emails, soup_links, base_url, found_social,
                   website, requests, driver, session, quit_calls, late_use, business_elements,
                   business_links, outcomes, scrollVars>>

\* A website error turns the return into a fatal one
ReturnFailsOnWebsiteError ==
    /\ pc = "return"
    /\ ret' = IF businesses # <<>> /\ stats.website_errors = 0
              THEN [records |-> businesses, error |-> "None", stats |-> stats]
              ELSE Fatal("no_details")
    /\ pc' = "finally"
    /\ UNCHANGED <<uiVars, argVars, fnVars, driver, session, quit_calls, late_use, businesses, stats,
                   error_log, progress, loopVars, scrollVars>>

\* return pd.DataFrame(businesses), None, stats
ReturnRecords ==
    /\ pc = "return"
    /\ ret' = IF businesses # <<>>
              THEN [records |-> businesses, error |-> "None", stats |-> stats]
              ELSE Fatal("no_details")
    /\ pc' = "finally"
    /\ UNCHANGED <<uiVars, argVars, fnVars, driver, session, quit_calls, late_use, businesses, stats,
                   error_log, progress, loopVars, scrollVars>>

\* quit() only where the run returns records
QuitOnSuccessOnly == driver # "None" /\ ret.error = "None"

\* if driver:
QuitNeeded == driver # "None"

\* The exception of quit() takes the place of the value being returned
FinallyQuitMasks ==
    /\ pc = "finally"
    /\ IF QuitNeeded
       THEN /\ quit_calls' = quit_calls + 1
            /\ late_use' = late_use
            /\ \E quit_raised \in BOOLEAN :
                 /\ session' = IF quit_raised THEN session ELSE "closed"
                 /\ ret' = IF quit_raised THEN Fatal("critical_error") ELSE ret
       ELSE UNCHANGED <<quit_calls, late_use, session, ret>>
    /\ pc' = "returned"
    /\ UNCHANGED <<uiVars, argVars, fnVars, driver, businesses, stats, error_log, progress,
                   loopVars, scrollVars>>

\* finally: if driver: driver.quit(), whose own exception is only warned about
Finally ==
    /\ pc = "finally"
    /\ IF QuitNeeded
       THEN /\ quit_calls' = quit_calls + 1
            /\ late_use' = late_use
            /\ \E quit_raised \in BOOLEAN :
                 session' = IF quit_raised THEN session ELSE "closed"
       ELSE UNCHANGED <<quit_calls, late_use, session>>
    /\ pc' = "returned"
    /\ UNCHANGED <<uiVars, argVars, fnVars, driver, businesses, stats, error_log, progress, ret,
                   loopVars, scrollVars>>

Next ==
    \/ AcquireDriver
    \/ LoadPage
    \/ FindPanel
    \/ ScrollEnter
    \/ ScrollStep
    \/ ScrollReturn
    \/ FindBusinesses
    \/ ExtractRecord
    \/ AfterExtract
    \/ EnrichRecord
    \/ ReturnRecords
    \/ Finally

Spec == Init /\ [][Next]_vars

\* ------------------------------------------------------------------------
\* The extractors called on their own
\* ------------------------------------------------------------------------
MaxWords == 4         \* longest text, in words
MaxLinks == 3         \* longest list of links of a page

\* No run of scrape_google_maps_real is going on
NoRun ==
    /\ max_results = 1
    /\ extract_contact = FALSE
    /\ progress_callback = "none"
    /\ RunEntry
    /\ NoDashboard

Words == {E_info, E_Info, E_hello, E_sales, E_example, E_Example, E_image, E_long,
          W_plain, W_notld}

Texts == UNION {[1..n -> Words] : n \in 0..MaxWords}

InitEmails ==
    /\ pc = "emails"
    /\ text \in Texts
    /\ valid_emails = <<>>
    /\ NoSocialCall
    /\ NoWebsiteCall
    /\ NoRun

\* valid_emails = extract_emails_from_text(text)
ExtractEmails ==
    /\ pc = "emails"
    /\ valid_emails' = extract_emails_from_text(text)
    /\ pc' = "emails_done"
    /\ UNCHANGED <<uiVars, argVars, runVars, text, soup_links, base_url, found_social, website,
                   contact_info, requests>>

SpecEmails == InitEmails /\ [][ExtractEmails]_vars

SocialLinks == {L_fb1, L_fb2, L_ig, L_share, L_tw, L_contact, L_plain}

LinkLists == UNION {[1..n -> SocialLinks] : n \in 0..MaxLinks}

FacebookUrl == <<"https://", "facebook.com", "/", "mybiz">>

InitSocial ==
    /\ pc = "social"
    /\ soup_links \in LinkLists
    /\ base_url \in {SiteUrl, FacebookUrl}
    /\ found_social = <<>>
    /\ NoEmailsCall
    /\ NoWebsiteCall
    /\ NoRun

\* found_social = extract_social_media_links(soup, base_url)
ExtractSocial ==
    /\ pc = "social"
    /\ found_social' = extract_social_media_links(soup_links, base_url)
    /\ pc' = "social_done"
    /\ UNCHANGED <<uiVars, argVars, runVars, text, valid_emails, soup_links, base_url, website,
                   contact_info, requests>>

SpecSocial == InitSocial /\ [][ExtractSocial]_vars

MaxPageWords == 2     \* longest homepage text, in words
MaxPageLinks == 2     \* longest list of links of a homepage

PageWords == {E_info, E_hello, E_example}

PageLinks == {L_contact, L_about, L_fb1, L_mailto, L_mailto_q, L_MAILTO, L_mailto_name}

\* Homepages long enough to be parsed
HomePages ==
    {Page(t, l, 100) : t \in UNION {[1..n -> PageWords] : n \in 0..MaxPageWords},
                       l \in UNION {[1..n -> PageLinks] : n \in 0..MaxPageLinks}}

\* Homepages of fewer than 100 characters
ShortPages == {NoPage, Page(<<E_info>>, <<L_contact>>, 0), Page(<<E_hello>>, <<L_mailto>>, 80)}

\* What the request of the contact page answers: an exception, or a page
ContactResponses ==
    {[raised |-> TRUE, page |-> NoPage]} \cup
    {[raised |-> FALSE, page |-> q] :
        q \in {NoPage,
               Page(<<E_hello>>, <<>>, 0),
               Page(<<>>, <<L_mailto>>, 0),
               Page(<<E_info>>, <<L_mailto_name>>, 0),
               Page(<<E_info, E_Info>>, <<L_mailto, L_mailto_q>>, 0)}}

WebUrls == {SiteUrl, <<"mysite.com">>}

Websites ==
    {Site(u, "timeout", NoPage, TRUE, NoPage) : u \in {NA, <<>>}} \cup
    {Site(u, k, NoPage, TRUE, NoPage) :
        u \in WebUrls,
        k \in {"timeout", "connection", "http_error", "exception", "non_html"}} \cup
    {Site(u, "html", h, TRUE, NoPage) : u \in WebUrls, h \in ShortPages} \cup
    {Site(<<"mysite.com">>, "html", h, c.raised, c.page) :
        h \in {Page(<<E_info>>, <<>>, 100), Page(<<>>, <<L_about, L_contact>>, 100)},
        c \in ContactResponses} \cup
    {Site(SiteUrl, "html", h, c.raised, c.page) : h \in HomePages, c \in ContactResponses}

InitWebsite ==
    /\ pc = "website"
    /\ website \in Websites
    /\ contact_info = ContactResult(<<>>, <<>>, "None")
    /\ requests = <<>>
    /\ NoEmailsCall
    /\ NoSocialCall
    /\ NoRun

\* contact_info = scrape_website_for_contact_info(website_url)
ScrapeWebsite ==
    /\ pc = "website"
    /\ contact_info' = scrape_website_for_contact_info(website).result
    /\ requests' = scrape_website_for_contact_info(website).requests
    /\ pc' = "website_done"
    /\ UNCHANGED <<uiVars, argVars, runVars, text, valid_emails, soup_links, base_url,
                   found_social, website>>

SpecWebsite == InitWebsite /\ [][ScrapeWebsite]_vars

\* ------------------------------------------------------------------------
\* The dashboard: the Start button and its handler
\* ------------------------------------------------------------------------
\* The locals of scrape_google_maps_real are (again) what they are at its entry
LocalsReset ==
    /\ driver' = "None"
    /\ session' = "absent"
    /\ quit_calls' = 0
    /\ late_use' = FALSE
    /\ businesses' = <<>>
    /\ stats' = ZeroStats
    /\ progress' = <<>>
    /\ ret' = [records |-> <<>>, error |-> "pending", stats |-> ZeroStats]
    /\ business_elements' = <<>>
    /\ business_links' = <<>>
    /\ idx' = 0
    /\ outcomes' = <<>>
    /\ UNCHANGED scrollVars

\* A session of the dashboard that has run the script once and shows the page
InitUI ==
    /\ pc = "idle"
    /\ ui_pc = "waiting"
    /\ is_scraping = FALSE
    /\ button_disabled = FALSE
    /\ extracted_data = "None"
    /\ max_results = 1
    /\ extract_contact = FALSE
    /\ progress_callback = "given"
    /\ RunEntry
    /\ NoEmailsCall
    /\ NoSocialCall
    /\ NoWebsiteCall

\* st.button(..., disabled=st.session_state.is_scraping): the button is drawn
\* with the value the flag has when the script reaches line 774
ButtonDrawnWith(flag) == flag

\* A click on the Start button: the script runs from the top with start_button
\* true, draws the button, and with both inputs filled sets the flag and
\* calls scrape_google_maps_real
ClickStart ==
    /\ ui_pc = "waiting"
    /\ pc = "idle"
    /\ ~button_disabled
    /\ button_disabled' = ButtonDrawnWith(is_scraping)
    /\ \E inputs_filled \in BOOLEAN :
         IF ~inputs_filled
         THEN UNCHANGED <<ui_pc, is_scraping, pc, argVars, runVars>>
         ELSE /\ is_scraping' = TRUE
              /\ ui_pc' = "scraping"
              /\ max_results' \in 1..MaxResultsArg
              /\ extract_contact' \in BOOLEAN
              /\ progress_callback' = "given"
              /\ LocalsReset
              /\ error_log' = <<>>
              /\ pc' = "acquire"
    /\ UNCHANGED <<extracted_data, fnVars>>

\* Any other interaction runs the script with start_button false
Interact ==
    /\ ui_pc = "waiting"
    /\ pc = "idle"
    /\ button_disabled' = ButtonDrawnWith(is_scraping)
    /\ UNCHANGED <<ui_pc, is_scraping, extracted_data, pc, argVars, runVars, fnVars>>

\* The Clear All button: data and log are cleared, st.rerun()
ClearAll ==
    /\ ui_pc = "waiting"
    /\ pc = "idle"
    /\ extracted_data' = "None"
    /\ error_log' = <<>>
    /\ button_disabled' = ButtonDrawnWith(is_scraping)
    /\ UNCHANGED <<ui_pc, is_scraping, pc, argVars, fnVars, driver, session, quit_calls,
                   late_use, businesses, stats, progress, ret, loopVars, scrollVars>>

\* scrape_google_maps_real returned: the result is shown, the flag is
\* cleared, st.rerun() runs the script again from the top
FinishHandler ==
    /\ ui_pc = "scraping"
    /\ pc = "returned"
    /\ extracted_data' = IF ret.error = "None" /\ ret.records # <<>>
                         THEN "data" ELSE extracted_data
    /\ is_scraping' = FALSE
    /\ button_disabled' = ButtonDrawnWith(is_scraping')
    /\ ui_pc' = "waiting"
    /\ pc' = "idle"
    /\ LocalsReset
    /\ contact_info' = ContactResult(<<>>, <<>>, "None")
    /\ UNCHANGED <<argVars, error_log, text, valid_emails, soup_links, base_url,
                   found_social, website, requests>>

NextUI ==
    \/ ClickStart
    \/ Interact
    \/ ClearAll
    \/ FinishHandler
    \/ Next

SpecUI == InitUI /\ [][NextUI]_vars

\* ------------------------------------------------------------------------
\* Properties
\* ------------------------------------------------------------------------
NoDuplicates(q) == \A i, j \in 1..Len(q) : q[i] = q[j] => i = j

\* C1: in a run that acquired a driver, driver.quit() is called exactly once,
\* after the last use of the session and before the run returns, on every
\* exit path (fatal returns, success return, unexpected exception).
ReleasedExactlyOnce ==
    driver = "session" =>
        /\ ~late_use
        /\ pc = "returned" => quit_calls = 1
        /\ pc # "returned" => quit_calls = 0

ReleasedAfterCritical ==
    /\ pc = "returned"
    /\ driver = "session"
    /\ quit_calls = 1
    /\ ret.error = "critical_error"
    /\ businesses # <<>>

\* C2: a candidate that raises during its extraction never aborts the batch:
\* every collected candidate is attempted, and when exactly one candidate
\* raises (stale element or another exception) and the others succeed, the
\* run has N-1 records and google_maps_errors = 1.
RaisedOutcomes == {"stale", "error"}

OnlyFaultAt(k) ==
    /\ outcomes[k] \in RaisedOutcomes
    /\ \A j \in 1..Len(outcomes) : j # k => outcomes[j] = "ok"

FaultIsolated ==
    /\ pc = "extract" => Len(outcomes) = idx
    /\ pc = "extracted" =>
         /\ Len(outcomes) = Len(business_links)
         /\ \A k \in 1..Len(outcomes) :
              OnlyFaultAt(k) =>
                  /\ Len(businesses) = Len(business_links) - 1
                  /\ stats.google_maps_errors = 1

FaultThenSuccess ==
    /\ pc = "extracted"
    /\ Len(business_links) = 2
    /\ outcomes = <<"stale", "ok">>
    /\ Len(businesses) = 1

\* C3: the return has one of two shapes on every exit path: records and no
\* error, or no records and an error message; the stats are returned in both.
UniformReturn ==
    pc \in {"finally", "returned"} =>
        /\ \/ ret.records # <<>> /\ ret.error = "None"
           \/ ret.records = <<>> /\ ret.error \notin {"None", "pending"}
        /\ ret.stats = stats

PartialSuccessReturned ==
    /\ pc = "returned"
    /\ ret.records # <<>>
    /\ ret.error = "None"
    /\ ret.stats.google_maps_errors > 0

\* C4: when get_chrome_driver returns None the run returns no records, an
\* error message and all-zero stats; no page load, discovery, extraction or
\* enrichment step runs and driver.quit() is not attempted.
DriverFailureShape ==
    /\ driver = "None" => pc \in {"acquire", "finally", "returned"}
    /\ ret.error = "driver_init_failed" =>
         /\ driver = "None"
         /\ ret.records = <<>>
         /\ ret.stats = ZeroStats
         /\ stats = ZeroStats
         /\ quit_calls = 0
         /\ ~late_use
         /\ error_log = <<>>
         /\ businesses = <<>>
         /\ business_elements = <<>>
         /\ reads = <<>>
         /\ \A i \in 1..Len(progress) : progress[i].phase = "init"

DriverFailureReturned ==
    /\ pc = "returned"
    /\ ret.error = "driver_init_failed"
    /\ session = "open"

\* C5: the scroll loop stops at the first height read that is the 3rd in a
\* row equal to the height recorded before it, never earlier and never
\* later; a changed height resets the unchanged counter; without such a
\* read the loop stops after exactly max_scrolls passes, and never runs more.
ThirdUnchanged(r, i) ==
    /\ i >= 4
    /\ r[i] = r[i - 1]
    /\ r[i - 1] = r[i - 2]
    /\ r[i - 2] = r[i - 3]

ScrollFailed == InSeq("SCROLL_ERROR", error_log)

ScrollConvergence ==
    pc \in {"scroll_loop", "scroll_exit"} =>
        LET n == Len(reads)
        IN /\ n - 1 <= max_scrolls
           /\ \A i \in 1..(n - 1) : ~ThirdUnchanged(reads, i)
           /\ (n >= 2 /\ reads[n] # reads[n - 1]) => no_change_count = 0
           /\ pc = "scroll_loop" => ~ThirdUnchanged(reads, n) /\ n - 1 < max_scrolls
           /\ (pc = "scroll_exit" /\ ~ScrollFailed) =>
                  ThirdUnchanged(reads, n) \/ n - 1 = max_scrolls

ConvergedAfterChange ==
    /\ pc = "scroll_exit"
    /\ reads = <<1, 2, 2, 2, 2>>
    /\ ~ScrollFailed

\* C6 (as stated): the output of extract_emails_from_text has no
\* duplicates, at most 3 entries, and no entry with a denylisted domain.
DomainOf(email) == SubSeq(email, FirstIndex("@", email) + 1, Len(email))

DeniedDomain(email) ==
    \E k \in 1..Len(fake_patterns) : IsSubstr(fake_patterns[k], Lower(DomainOf(email)))

EmailsCappedAtThree ==
    pc = "emails_done" =>
        /\ NoDuplicates(valid_emails)
        /\ Len(valid_emails) <= 3
        /\ \A i \in 1..Len(valid_emails) : ~DeniedDomain(valid_emails[i])

\* C6 (amended): the output of extract_emails_from_text has no duplicates
\* and no entry with a denylisted domain, every entry is shorter than 100
\* characters, and the output can be longer than 3: the function does not
\* truncate it.
EmailsCleanNotCapped ==
    pc = "emails_done" =>
        /\ NoDuplicates(valid_emails)
        /\ \A i \in 1..Len(valid_emails) :
             /\ ~DeniedDomain(valid_emails[i])
             /\ StrLen(valid_emails[i]) < 100
             /\ InSeq(valid_emails[i], text)

FourEmailsReturned ==
    /\ pc = "emails_done"
    /\ Len(valid_emails) = 4
    /\ Len(text) = 4

\* C7: the contact page is requested only when the homepage gave no email,
\* at most one contact page (the first matching link) is requested, a
\* contact page that was received replaces the email list with what it
\* yields, and a failed request leaves the homepage result unchanged.
HomeUsable(site) ==
    /\ site.url \notin {<<>>, NA}
    /\ site.home.kind = "html"
    /\ PageTextLen(site.home.page) >= 100

HomeYield(site) == FirstThree(PageEmails(site.home.page, TRUE))

FirstContactLink(links) ==
    links[CHOOSE i \in 1..Len(links) :
            IsContactLink(links[i]) /\ \A j \in 1..(i - 1) : ~IsContactLink(links[j])]

FallbackRule ==
    pc = "website_done" =>
        /\ Len(requests) <= 2
        /\ Len(requests) = 2 =>
             /\ HomeUsable(website)
             /\ HomeYield(website) = <<>>
             /\ requests[2] = urljoin(NormalUrl(website.url),
                                      FirstContactLink(website.home.page.links).href)
             /\ contact_info.emails =
                    IF website.contact.raised
                    THEN HomeYield(website)
                    ELSE FirstThree(PageEmails(website.contact.page, FALSE))
        /\ (HomeUsable(website) /\ Len(requests) = 1) =>
               contact_info.emails = HomeYield(website)
        /\ (HomeUsable(website) /\ HomeYield(website) # <<>>) => Len(requests) = 1

ContactPageReplaced ==
    /\ pc = "website_done"
    /\ Len(requests) = 2
    /\ website.home.page.links = <<L_about, L_contact>>
    /\ website.contact.page.links = <<L_mailto>>
    /\ contact_info.emails = <<E_hello>>

\* C8: extract_social_media_links records at most one URL per platform, and
\* the URL of a recorded platform comes from the first link, in document
\* order, whose href holds one of the platform's domains.
PlatformEntry(platform) ==
    social_platforms[CHOOSE k \in 1..Len(social_platforms) :
                        social_platforms[k].platform = platform]

LinkMatches(link, platform) ==
    DomainIn(PlatformEntry(platform).domains, ResolvedHref(link, base_url))

FirstMatchingLink(platform) ==
    soup_links[CHOOSE i \in 1..Len(soup_links) :
                  /\ LinkMatches(soup_links[i], platform)
                  /\ \A j \in 1..(i - 1) : ~LinkMatches(soup_links[j], platform)]

FirstLinkPerPlatform ==
    pc = "social_done" =>
        /\ \A i, j \in 1..Len(found_social) :
             found_social[i].platform = found_social[j].platform => i = j
        /\ \A i \in 1..Len(found_social) :
             LET platform == found_social[i].platform
             IN /\ \E n \in 1..Len(soup_links) : LinkMatches(soup_links[n], platform)
                /\ found_social[i].url =
                       SplitFirst(ResolvedHref(FirstMatchingLink(platform), base_url), "?")

\* C9: when the extraction loop has processed all collected candidates,
\* successfully_extracted + google_maps_errors = total_found: every
\* candidate is counted once, as a success or as an error.
EveryCandidateBucketed ==
    pc = "extracted" =>
        stats.successfully_extracted + stats.google_maps_errors = stats.total_found

\* C10: every recoverable fault adds one entry to the error log: each
\* per-record fault and each per-enrichment fault (timeout, connection
\* failure, HTTP error status, non-HTML content, empty page).
EnrichmentFaults == {"Timeout", "Connection failed", "HTTP status", "Non-HTML", "Empty content"}

RecordFaultStep == stats'.google_maps_errors = stats.google_maps_errors + 1

EnrichmentFaultStep ==
    /\ pc = "enrich"
    /\ idx' = idx + 1
    /\ businesses[idx + 1].website # NA
    /\ contact_info'.error \in EnrichmentFaults

EveryFaultLogged ==
    [][(RecordFaultStep \/ EnrichmentFaultStep) => Len(error_log') = Len(error_log) + 1]_vars

\* C11: no outcome of a website enrichment is fatal. While the progress
\* sink does not raise, a pass of the stage-2 loop keeps every record, leaves
\* the return value alone and goes on to the next record; the run that
\* scraped a website then returns all records of stage 1 (as many as
\* successfully_extracted) with error None, after the loop went over all.
EnrichmentErrors ==
    {"Timeout", "Connection failed", "HTTP status", "Non-HTML", "Empty content",
     "No contact info found"}

SinkRaised == \E i \in 1..Len(error_log) : error_log[i] = "CRITICAL"

EnrichmentPass ==
    (pc = "enrich" /\ error_log' = error_log) =>
        /\ Len(businesses') = Len(businesses)
        /\ ret' = ret
        /\ idx' = idx + 1
        /\ pc' = IF idx' < Len(businesses) THEN "enrich" ELSE "return"

EnrichedRunReturned ==
    (pc = "returned" /\ stats.website_scraped > 0 /\ ~SinkRaised) =>
        /\ ret.error = "None"
        /\ Len(ret.records) = ret.stats.successfully_extracted
        /\ ret.records = businesses
        /\ idx = Len(businesses)

EnrichmentNeverFatal == []EnrichedRunReturned /\ [][EnrichmentPass]_vars

\* Two records, the website of the first failed, the second was still enriched
FailedWebsiteThenEnriched ==
    /\ pc = "returned"
    /\ ret.error = "None"
    /\ Len(ret.records) = 2
    /\ ret.stats.website_scraped = 2
    /\ ret.stats.website_errors = 1
    /\ ret.records[1].email = NA
    /\ ret.records[2].email # NA
    /\ contact_info.error = "None"

\* C12: in every result of scrape_website_for_contact_info the error field
\* is set only when both the email list and the social mapping are empty.
ErrorOnlyWhenEmpty ==
    pc = "website_done" =>
        (contact_info.error # "None" =>
            contact_info.emails = <<>> /\ contact_info.social_media = <<>>)

\* The contact page was requested and gave nothing either: the error is set
ErrorAfterEmptyContactPage ==
    /\ pc = "website_done"
    /\ Len(requests) = 2
    /\ ~website.contact.raised
    /\ contact_info = ContactResult(<<>>, <<>>, "No contact info found")

\* C13: the email list of a result of scrape_website_for_contact_info has at
\* most 3 entries and no duplicates, whether it comes from the homepage text,
\* the mailto merge or the contact page that replaced it.
EmailsAtMostThreeDistinct ==
    pc = "website_done" =>
        /\ Len(contact_info.emails) <= 3
        /\ NoDuplicates(contact_info.emails)

\* The contact page gave more than 3 addresses and the slice cut its list
ContactListCut ==
    /\ pc = "website_done"
    /\ Len(requests) = 2
    /\ ~website.contact.raised
    /\ Len(PageEmails(website.contact.page, FALSE)) > 3
    /\ Len(contact_info.emails) = 3

\* C14: the finally block always ends in the return of the run and leaves
\* the value being returned as it was, also when driver.quit() raises (the
\* session is then still open after the call).
QuitFailureHarmless ==
    [][pc = "finally" => (pc' = "returned" /\ ret' = ret /\ error_log' = error_log)]_vars

\* quit() raised at the end of a run that returns records
QuitRaisedOnSuccess ==
    /\ pc = "returned"
    /\ quit_calls = 1
    /\ session = "open"
    /\ ret.error = "None"
    /\ ret.records = businesses
    /\ businesses # <<>>

\* C15: a run goes through INIT, SESSION_READY, DISCOVERY,
\* RECORD_EXTRACTION, ENRICHMENT (optional) and DONE in this order, no stage
\* skipped or entered again; a fatal condition moves it to FAILED, after
\* which (as after DONE) no other stage runs; ENRICHMENT is entered only
\* with extract_contact true and at least one record.
StageOf(p, r) ==
    CASE p = "acquire" -> "INIT"
      [] p = "load" -> "SESSION_READY"
      [] p \in {"panel", "scroll_enter", "scroll_loop", "scroll_exit", "find"} -> "DISCOVERY"
      [] p \in {"extract", "extracted"} -> "RECORD_EXTRACTION"
      [] p = "enrich" -> "ENRICHMENT"
      [] p = "return" -> "DONE"
      [] p \in {"finally", "returned"} -> IF r.error = "None" THEN "DONE" ELSE "FAILED"

StageMoves ==
    {<<"INIT", "SESSION_READY">>, <<"SESSION_READY", "DISCOVERY">>,
     <<"DISCOVERY", "RECORD_EXTRACTION">>, <<"RECORD_EXTRACTION", "ENRICHMENT">>,
     <<"RECORD_EXTRACTION", "DONE">>, <<"ENRICHMENT", "DONE">>}

StageStep ==
    LET from == StageOf(pc, ret)
        to == StageOf(pc', ret')
    IN /\ \/ to = from
          \/ <<from, to>> \in StageMoves
          \/ to = "FAILED" /\ from # "DONE"
       /\ (from = "RECORD_EXTRACTION" /\ to = "DONE") => ~extract_contact
       /\ (to = "ENRICHMENT" /\ from # "ENRICHMENT") =>
              extract_contact /\ businesses # <<>>

StageOrder == [][StageStep]_vars

\* A run that went through every stage, enrichment included, and is done
AllStagesDone ==
    /\ pc = "returned"
    /\ StageOf(pc, ret) = "DONE"
    /\ extract_contact
    /\ stats.website_scraped > 0
    /\ quit_calls = 1

\* C16: the count scroll_results_panel returns is the number of loop passes
\* in which the feed was scrolled and measured again (every read after the
\* first), the pass that detected convergence included.
ReturnsIterationCount ==
    pc = "scroll_exit" => scroll_count = Len(reads) - 1

\* C17: the name is mandatory. A candidate whose name chain gave "N/A" adds
\* no record and adds one to google_maps_errors (and nothing to
\* successfully_extracted); a candidate with a name adds a record, whatever
\* its other fields are; no record has the name "N/A".
NameMandatoryStep ==
    LET outcome == outcomes'[Len(outcomes')]
    IN /\ outcome = "no_name" =>
             /\ businesses' = businesses
             /\ stats' = Bump(stats, "google_maps_errors")
       /\ outcome \in {"ok", "callback_raised"} =>
             /\ Len(businesses') = Len(businesses) + 1
             /\ SubSeq(businesses', 1, Len(businesses)) = businesses
             /\ businesses'[Len(businesses')].name # NA
             /\ stats'.successfully_extracted = stats.successfully_extracted + 1

NameMandatory ==
    /\ [](\A i \in 1..Len(businesses) : businesses[i].name # NA)
    /\ [][pc = "extract" => NameMandatoryStep]_vars

\* One candidate had no name and was dropped, another had nothing but a name
\* and is a record
NamelessDroppedBareKept ==
    /\ pc = "extracted"
    /\ outcomes = <<"no_name", "ok">>
    /\ stats.google_maps_errors = 1
    /\ businesses = <<BusinessOf(BarePanel)>>
    /\ \A f \in {"phone", "address", "website", "rating", "reviews"} :
          businesses[1][f] = NA

\* C18: the collected candidates are the first min(max_results, number of
\* place links) elements, in document order, whose href holds 'maps/place';
\* there are never more than max_results of them, total_found is their
\* number, and with none the run returns the fatal error without attempting
\* any record.
PlacesOf(elems) == {p \in 1..Len(elems) : elems[p] = "place"}

Smaller(a, b) == IF a < b THEN a ELSE b

CandidatesCollected ==
    business_elements # <<>> =>
        LET places == PlacesOf(business_elements)
            n == Smaller(max_results, Cardinality(places))
        IN /\ Len(business_links) = n
           /\ Len(business_links) <= max_results
           /\ \A k \in 1..n :
                 /\ business_links[k] \in places
                 /\ Cardinality({q \in places : q < business_links[k]}) = k - 1
           /\ stats.total_found = n
           /\ n = 0 =>
                 /\ pc \in {"finally", "returned"}
                 /\ ret = FatalWith("no_links", ZeroStats)
                 /\ outcomes = <<>>
                 /\ businesses = <<>>

\* Two place links were found and max_results is 1: only the first is taken
CollectionStoppedAtLimit ==
    /\ pc = "extract"
    /\ max_results = 1
    /\ business_elements = <<"place", "place">>
    /\ business_links = <<1>>
    /\ stats.total_found = 1

\* C19: the messages the progress callback receives in a run come in phase
\* order (session init, page load, waiting, scrolling, candidates found,
\* per-record extraction, start of stage 2, per-website enrichment): no
\* message of an earlier phase follows one of a later phase, only the
\* per-record and the per-website phases send more than one message, and
\* within them the reported index strictly increases.
PhaseRank(phase) ==
    CASE phase = "init" -> 1
      [] phase = "load" -> 2
      [] phase = "waiting" -> 3
      [] phase = "scroll" -> 4
      [] phase = "scrolled" -> 5
      [] phase = "found" -> 6
      [] phase = "record" -> 7
      [] phase = "stage2" -> 8
      [] phase \in {"website", "skipped"} -> 9

ProgressMonotonic ==
    \A i, j \in 1..Len(progress) :
        i < j =>
            /\ PhaseRank(progress[i].phase) <= PhaseRank(progress[j].phase)
            /\ PhaseRank(progress[i].phase) = PhaseRank(progress[j].phase) =>
                  /\ PhaseRank(progress[i].phase) \in {7, 9}
                  /\ progress[i].n < progress[j].n

\* A run that reported two records and then two enrichments, one of a
\* website and one skipped
TwoRecordsTwoEnrichmentsReported ==
    /\ pc = "returned"
    /\ progress_callback = "given"
    /\ Len(progress) = 11
    /\ progress[7] = [phase |-> "record", n |-> 1]
    /\ progress[8] = [phase |-> "record", n |-> 2]
    /\ progress[9].phase = "stage2"
    /\ {progress[10].phase, progress[11].phase} = {"website", "skipped"}
    /\ progress[11].n = 2

\* C20: while an extraction started from the Start button is in progress the
\* in-progress flag is set and the Start button on the page is one that was
\* rendered disabled; when no extraction is in progress the flag is false
\* and the button is enabled, so that a new extraction can be started.
StartDisabledWhileScraping ==
    /\ ui_pc = "scraping" => (is_scraping /\ button_disabled)
    /\ ui_pc = "waiting" => (~is_scraping /\ ~button_disabled)

====
